---- MODULE Spec2Model ----
(***************************************************************************)
(* Model of backend/telemetry_shard/src/real_ip.rs: resolution of the      *)
(* "real" client address of a connection from proxy headers and the socket *)
(* address.                                                                *)
(*                                                                         *)
(* Strings are sequences of bytes (0..255).  Indexes that the Rust code    *)
(* computes are kept 0-based, as in the source; Option<T> is a sequence of *)
(* length 0 (None) or 1 (Some(x)).  An IP address is <<4, a, b, c, d>>     *)
(* (octets) or <<6, g1, ..., g8>> (16-bit groups).                         *)
(***************************************************************************)
EXTENDS Integers, Sequences, FiniteSets

VARIABLES addr, headers, pc, result

vars == <<addr, headers, pc, result>>

-----------------------------------------------------------------------------
(* Option<T> *)

None == <<>>

Some(x) == <<x>>

IsSome(o) == Len(o) = 1

Unwrap(o) == o[1]

-----------------------------------------------------------------------------
(* Bytes that the code and the standard parsers look at. *)

Comma == 44

Dot == 46

Colon == 58

CloseBracket == 93

Zero == 48

\* s[i] for a 0-based index i
At(s, i) == s[i + 1]

-----------------------------------------------------------------------------
(* std::str::from_utf8: UTF-8 validation of a header value's bytes.        *)

IsCont(s, i) == i < Len(s) /\ At(s, i) \in 128..191

InRange(s, i, lo, hi) == i < Len(s) /\ At(s, i) \in lo..hi

\* Width of the well-formed UTF-8 scalar starting at 0-based offset i, 0 if
\* the bytes there do not start one.
Utf8Width(s, i) ==
    LET b == At(s, i) IN
    IF b < 128 THEN 1
    ELSE IF b \in 194..223 THEN (IF IsCont(s, i + 1) THEN 2 ELSE 0)
    ELSE IF b = 224
        THEN (IF InRange(s, i + 1, 160, 191) /\ IsCont(s, i + 2) THEN 3 ELSE 0)
    ELSE IF b \in (225..236) \cup (238..239)
        THEN (IF IsCont(s, i + 1) /\ IsCont(s, i + 2) THEN 3 ELSE 0)
    ELSE IF b = 237
        THEN (IF InRange(s, i + 1, 128, 159) /\ IsCont(s, i + 2) THEN 3 ELSE 0)
    ELSE IF b = 240
        THEN (IF InRange(s, i + 1, 144, 191) /\ IsCont(s, i + 2)
                 /\ IsCont(s, i + 3) THEN 4 ELSE 0)
    ELSE IF b \in 241..243
        THEN (IF IsCont(s, i + 1) /\ IsCont(s, i + 2)
                 /\ IsCont(s, i + 3) THEN 4 ELSE 0)
    ELSE IF b = 244
        THEN (IF InRange(s, i + 1, 128, 143) /\ IsCont(s, i + 2)
                 /\ IsCont(s, i + 3) THEN 4 ELSE 0)
    ELSE 0

RECURSIVE ValidUtf8From(_, _)
ValidUtf8From(s, i) ==
    IF i >= Len(s) THEN TRUE
    ELSE LET w == Utf8Width(s, i) IN
         IF w = 0 THEN FALSE ELSE ValidUtf8From(s, i + w)

from_utf8(bytes) == IF ValidUtf8From(bytes, 0) THEN Some(bytes) ELSE None

-----------------------------------------------------------------------------
(* str::trim: strips leading and trailing chars with the Unicode           *)
(* White_Space property; given here by their UTF-8 encodings.              *)

WhiteSpace ==
    {<<b>> : b \in 9..13} \cup {<<32>>, <<194, 133>>, <<194, 160>>,
     <<225, 154, 128>>, <<226, 128, 168>>, <<226, 128, 169>>,
     <<226, 128, 175>>, <<226, 129, 159>>, <<227, 128, 128>>}
    \cup {<<226, 128, b>> : b \in 128..138}

StartsWith(s, p) == Len(p) <= Len(s) /\ SubSeq(s, 1, Len(p)) = p

EndsWith(s, p) ==
    Len(p) <= Len(s) /\ SubSeq(s, Len(s) - Len(p) + 1, Len(s)) = p

RECURSIVE trim_start(_)
trim_start(s) ==
    IF \E w \in WhiteSpace : StartsWith(s, w)
    THEN LET w == CHOOSE x \in WhiteSpace : StartsWith(s, x)
         IN trim_start(SubSeq(s, Len(w) + 1, Len(s)))
    ELSE s

RECURSIVE trim_end(_)
trim_end(s) ==
    IF \E w \in WhiteSpace : EndsWith(s, w)
    THEN LET w == CHOOSE x \in WhiteSpace : EndsWith(s, x)
         IN trim_end(SubSeq(s, 1, Len(s) - Len(w)))
    ELSE s

trim(s) == trim_end(trim_start(s))

-----------------------------------------------------------------------------
(* str::rfind and string slicing.                                          *)

\* 0-based byte index of the last occurrence of the byte c
rfind_char(s, c) ==
    LET hits == {i \in 0..(Len(s) - 1) : At(s, i) = c} IN
    IF hits = {} THEN None
    ELSE Some(CHOOSE i \in hits : \A j \in hits : j <= i)

\* 0-based byte index of the start of the last occurrence of the bytes c, d
rfind_pair(s, c, d) ==
    LET hits == {i \in 0..(Len(s) - 2) : At(s, i) = c /\ At(s, i + 1) = d} IN
    IF hits = {} THEN None
    ELSE Some(CHOOSE i \in hits : \A j \in hits : j <= i)

is_char_boundary(s, i) ==
    \/ i = 0
    \/ i = Len(s)
    \/ i \in 1..(Len(s) - 1) /\ At(s, i) \notin 128..191

\* &s[..end]: a panic when end is out of range or inside a char
SliceTo(s, end) ==
    IF end \in 0..Len(s) /\ is_char_boundary(s, end)
    THEN [panic |-> FALSE, val |-> SubSeq(s, 1, end)]
    ELSE [panic |-> TRUE, val |-> <<>>]

\* &s[..=index]
SliceToInclusive(s, index) == SliceTo(s, index + 1)

-----------------------------------------------------------------------------
(* <IpAddr as FromStr>::from_str, the parser behind str::parse::<IpAddr>:  *)
(* core::net::parser, working on the bytes of the string.  A reader        *)
(* returns [ok, val, pos]; pos is the 0-based offset of the next unread    *)
(* byte, and a reader that fails leaves the offset where it started.       *)

Fail(pos) == [ok |-> FALSE, val |-> <<>>, pos |-> pos]

\* char::to_digit(radix) for radix 10 and 16; -1 when the byte is no digit
to_digit(b, radix) ==
    IF b \in 48..57 THEN b - 48
    ELSE IF radix = 16 /\ b \in 97..102 THEN b - 87
    ELSE IF radix = 16 /\ b \in 65..70 THEN b - 55
    ELSE -1

RECURSIVE CountDigits(_, _, _)
CountDigits(s, pos, radix) ==
    IF pos < Len(s) /\ to_digit(At(s, pos), radix) >= 0
    THEN 1 + CountDigits(s, pos + 1, radix)
    ELSE 0

RECURSIVE DigitsValue(_, _, _, _, _)
DigitsValue(s, pos, n, radix, acc) ==
    IF n = 0 THEN acc
    ELSE DigitsValue(s, pos + 1, n - 1, radix,
                     acc * radix + to_digit(At(s, pos), radix))

\* Parser::read_atomically: a reader that fails leaves the offset at pos
read_atomically(r, pos) == IF r.ok THEN r ELSE Fail(pos)

\* The end of read_number: checked_mul/checked_add fail when the value
\* leaves the unsigned type whose largest value is max_value
CheckedNumber(v, max_value, pos, digit_count) ==
    IF v > max_value THEN Fail(pos)
    ELSE [ok |-> TRUE, val |-> v, pos |-> pos + digit_count]

\* read_number once the run of digits at pos has been counted
NumberOf(s, pos, radix, max_digits, zero_ok, max_value, digit_count) ==
    IF digit_count = 0 \/ digit_count > max_digits THEN Fail(pos)
    ELSE IF ~zero_ok /\ At(s, pos) = Zero /\ digit_count > 1 THEN Fail(pos)
    ELSE CheckedNumber(DigitsValue(s, pos, digit_count, radix, 0),
                       max_value, pos, digit_count)

\* Parser::read_number(radix, Some(max_digits), allow_zero_prefix)
read_number(s, pos, radix, max_digits, allow_zero_prefix, max_value) ==
    NumberOf(s, pos, radix, max_digits, allow_zero_prefix, max_value,
             CountDigits(s, pos, radix))

\* Parser::read_given_char
read_given_char(s, pos, c) == pos < Len(s) /\ At(s, pos) = c

\* Parser::read_separator(sep, index, inner) with inner = read_number
read_separator_number(s, pos, sep, index, radix, max_digits, zero_ok, max) ==
    IF index > 0 /\ ~read_given_char(s, pos, sep) THEN Fail(pos)
    ELSE read_atomically(
             read_number(s, IF index > 0 THEN pos + 1 ELSE pos,
                         radix, max_digits, zero_ok, max),
             pos)

\* Parser::read_ipv4_addr: four decimal octets separated by '.', no octal
RECURSIVE ReadOctets(_, _, _, _)
RECURSIVE NextOctet(_, _, _, _, _)
ReadOctets(s, pos, i, acc) ==
    IF i = 4 THEN [ok |-> TRUE, val |-> acc, pos |-> pos]
    ELSE NextOctet(s, pos, i, acc,
                   read_separator_number(s, pos, Dot, i, 10, 3, FALSE, 255))

\* The `?` on the octet just read
NextOctet(s, pos, i, acc, r) ==
    IF r.ok THEN ReadOctets(s, r.pos, i + 1, Append(acc, r.val))
    ELSE Fail(pos)

read_ipv4_addr(s, pos) == read_atomically(ReadOctets(s, pos, 0, <<>>), pos)

\* Parser::read_separator(':', index, |p| p.read_ipv4_addr())
read_separator_ipv4(s, pos, index) ==
    IF index > 0 /\ ~read_given_char(s, pos, Colon) THEN Fail(pos)
    ELSE read_atomically(
             read_ipv4_addr(s, IF index > 0 THEN pos + 1 ELSE pos), pos)

\* read_groups inside Parser::read_ipv6_addr: colon-separated 16-bit groups
\* with an optional trailing embedded IPv4 address; at most limit groups.
\* Returns the groups read, whether an IPv4 address ended them, and the
\* offset reached.
RECURSIVE read_groups(_, _, _, _, _)
RECURSIVE GroupsAfterIpv4(_, _, _, _, _, _)
RECURSIVE GroupsAfterGroup(_, _, _, _, _, _)
read_groups(s, pos, i, limit, acc) ==
    IF i >= limit THEN [groups |-> acc, ipv4 |-> FALSE, pos |-> pos]
    ELSE GroupsAfterIpv4(s, pos, i, limit, acc,
                         IF i < limit - 1 THEN read_separator_ipv4(s, pos, i)
                         ELSE Fail(pos))

\* read_groups after the attempt to read a trailing IPv4 address
GroupsAfterIpv4(s, pos, i, limit, acc, v4) ==
    IF v4.ok
    THEN [groups |-> acc \o <<v4.val[1] * 256 + v4.val[2],
                              v4.val[3] * 256 + v4.val[4]>>,
          ipv4 |-> TRUE, pos |-> v4.pos]
    ELSE GroupsAfterGroup(s, pos, i, limit, acc,
             read_separator_number(s, pos, Colon, i, 16, 4, TRUE, 65535))

\* read_groups after the attempt to read a 16-bit group
GroupsAfterGroup(s, pos, i, limit, acc, g) ==
    IF g.ok THEN read_groups(s, g.pos, i + 1, limit, Append(acc, g.val))
    ELSE [groups |-> acc, ipv4 |-> FALSE, pos |-> pos]

\* The end of read_ipv6_addr: head, zeroes for the "::", tail
Ipv6WithTail(head, tail) ==
    [ok |-> TRUE,
     val |-> head.groups
             \o [k \in 1..(8 - Len(head.groups) - Len(tail.groups)) |-> 0]
             \o tail.groups,
     pos |-> tail.pos]

\* read_ipv6_addr after the groups in front of a possible "::"
Ipv6AfterHead(s, pos, head) ==
    IF Len(head.groups) = 8
    THEN [ok |-> TRUE, val |-> head.groups, pos |-> head.pos]
    ELSE IF head.ipv4 THEN Fail(pos)
    ELSE IF ~(read_given_char(s, head.pos, Colon)
              /\ read_given_char(s, head.pos + 1, Colon)) THEN Fail(pos)
    ELSE Ipv6WithTail(head,
                      read_groups(s, head.pos + 2, 0,
                                  8 - (Len(head.groups) + 1), <<>>))

\* Parser::read_ipv6_addr
read_ipv6_addr(s, pos) == Ipv6AfterHead(s, pos, read_groups(s, pos, 0, 8, <<>>))

\* Parser::parse_with: the reader has to consume the whole input
parse_with(s, r, kind) ==
    IF r.ok /\ r.pos = Len(s) THEN Some(<<kind>> \o r.val) ELSE None

\* Parser::read_ip_addr: an IPv4 address, or else an IPv6 address
IpAddrOr(s, v4) ==
    IF v4.ok THEN parse_with(s, v4, 4)
    ELSE parse_with(s, read_ipv6_addr(s, 0), 6)

\* <IpAddr as FromStr>::from_str
parse_IpAddr(s) == IpAddrOr(s, read_ipv4_addr(s, 0))

-----------------------------------------------------------------------------
(* The program: real_ip.rs                                                 *)

\* enum Source
Source == {"ForwardedHeader", "XForwardedForHeader", "XRealIpHeader",
           "SocketAddr"}

\* impl Display for Source
SourceDisplay(source) ==
    CASE source = "ForwardedHeader" -> "'Forwarded' header"
      [] source = "XForwardedForHeader" -> "'X-Forwarded-For' header"
      [] source = "XRealIpHeader" -> "'X-Real-Ip' header"
      [] source = "SocketAddr" -> "Socket address"

\* The header names real_ip looks up (HeaderMap keeps names in lower case)
ChainHeaderName == "x-original-forwarded-for"

RealIpHeaderName == "x-real-ip"

\* HeaderMap::get: the value stored under a name, if any
HeaderGet(h, name) == IF name \in DOMAIN h THEN Some(h[name]) ELSE None

\* header_as_str as it would be with from_utf8_unchecked
header_as_str_unchecked(value) == Some(value)

\* fn header_as_str
header_as_str(value) == from_utf8(value)

\* The same with next() in place of last(): the first address of the list
get_first_addr_from_x_forwarded_for_header(value) ==
    LET hits == {i \in 0..(Len(value) - 1) : At(value, i) = Comma} IN
    Some(trim(IF hits = {} THEN value
              ELSE SubSeq(value, 1,
                          CHOOSE i \in hits : \A j \in hits : i <= j)))

\* The last piece of value.split(','), given the last comma's index
LastOfSplit(value, c) ==
    IF IsSome(c) THEN SubSeq(value, Unwrap(c) + 2, Len(value)) ELSE value

\* fn get_last_addr_from_x_forwarded_for_header: value.split(',') always
\* yields at least one piece, so last() is always Some
get_last_addr_from_x_forwarded_for_header(value) ==
    Some(trim(LastOfSplit(value, rfind_char(value, Comma))))

\* The slice parse_ip_address parses: what is left of value once the port
\* suffix found by the two rfind calls is cut off
PortStripped(value, bracket, colon) ==
    IF IsSome(bracket) THEN SliceToInclusive(value, Unwrap(bracket))
    ELSE IF IsSome(colon) THEN SliceTo(value, Unwrap(colon))
    ELSE [panic |-> FALSE, val |-> value]

\* addr.parse::<IpAddr>().ok() on the slice, unless slicing panicked
ParseSliced(sliced) ==
    IF sliced.panic THEN [panic |-> TRUE, val |-> None]
    ELSE [panic |-> FALSE, val |-> parse_IpAddr(sliced.val)]

\* parse_ip_address with the IPv4 branch slicing &value[..index - 1]
parse_ip_address_before_colon(value) ==
    IF IsSome(rfind_pair(value, CloseBracket, Colon))
    THEN ParseSliced(SliceToInclusive(
             value, Unwrap(rfind_pair(value, CloseBracket, Colon))))
    ELSE IF IsSome(rfind_char(value, Colon))
    THEN ParseSliced(SliceTo(value, Unwrap(rfind_char(value, Colon)) - 1))
    ELSE ParseSliced([panic |-> FALSE, val |-> value])

\* parse_ip_address with the IPv4 branch slicing &value[..=index]
parse_ip_address_keep_colon(value) ==
    IF IsSome(rfind_pair(value, CloseBracket, Colon))
    THEN ParseSliced(SliceToInclusive(
             value, Unwrap(rfind_pair(value, CloseBracket, Colon))))
    ELSE IF IsSome(rfind_char(value, Colon))
    THEN ParseSliced(SliceToInclusive(value,
                                      Unwrap(rfind_char(value, Colon))))
    ELSE ParseSliced([panic |-> FALSE, val |-> value])

\* fn parse_ip_address: [panic, val] with val the Option<IpAddr> returned
parse_ip_address(value) ==
    ParseSliced(PortStripped(value,
                             rfind_pair(value, CloseBracket, Colon),
                             rfind_char(value, Colon)))

Panicked == [panic |-> TRUE, ip |-> <<>>, source |-> "none"]

Resolved(ip, source) == [panic |-> FALSE, ip |-> ip, source |-> source]

\* The and_then closure on x_forwarded_for
FromChain(x_forwarded_for) ==
    IF IsSome(x_forwarded_for)
    THEN parse_ip_address(Unwrap(
             get_last_addr_from_x_forwarded_for_header(
                 Unwrap(x_forwarded_for))))
    ELSE [panic |-> FALSE, val |-> None]

\* The and_then closure on real_ip
FromRealIp(real_ip_hdr) ==
    IF IsSome(real_ip_hdr) THEN parse_IpAddr(trim(Unwrap(real_ip_hdr)))
    ELSE None

\* The or_else / unwrap_or_else chain over the two candidates
FirstOf(from_chain, from_real_ip, sock) ==
    IF from_chain.panic THEN Panicked
    ELSE IF IsSome(from_chain.val)
        THEN Resolved(Unwrap(from_chain.val), "XForwardedForHeader")
    ELSE IF IsSome(from_real_ip)
        THEN Resolved(Unwrap(from_real_ip), "XRealIpHeader")
    ELSE Resolved(sock.ip, "SocketAddr")

\* The real-IP candidate parsed without trim()
FromRealIpUntrimmed(real_ip_hdr) ==
    IF IsSome(real_ip_hdr) THEN parse_IpAddr(Unwrap(real_ip_hdr)) ELSE None

\* pick_best_ip_from_options parsing the real-IP header without trim()
pick_best_ip_untrimmed(x_forwarded_for, real_ip_hdr, sock) ==
    FirstOf(FromChain(x_forwarded_for), FromRealIpUntrimmed(real_ip_hdr),
            sock)

\* The chain with the real-IP candidate in front
FirstOfRealIpFirst(from_chain, from_real_ip, sock) ==
    IF IsSome(from_real_ip)
        THEN Resolved(Unwrap(from_real_ip), "XRealIpHeader")
    ELSE IF from_chain.panic THEN Panicked
    ELSE IF IsSome(from_chain.val)
        THEN Resolved(Unwrap(from_chain.val), "XForwardedForHeader")
    ELSE Resolved(sock.ip, "SocketAddr")

\* pick_best_ip_from_options trying the real-IP header before the chain
pick_best_ip_real_ip_first(x_forwarded_for, real_ip_hdr, sock) ==
    FirstOfRealIpFirst(FromChain(x_forwarded_for), FromRealIp(real_ip_hdr),
                       sock)

\* fn pick_best_ip_from_options
pick_best_ip_from_options(x_forwarded_for, real_ip_hdr, sock) ==
    FirstOf(FromChain(x_forwarded_for), FromRealIp(real_ip_hdr), sock)

\* header.and_then(header_as_str)
AndThenAsStr(header) ==
    IF IsSome(header) THEN header_as_str(Unwrap(header)) ELSE None

\* pub fn real_ip
real_ip(sock, h) ==
    pick_best_ip_from_options(
        AndThenAsStr(HeaderGet(h, ChainHeaderName)),
        AndThenAsStr(HeaderGet(h, RealIpHeaderName)),
        sock)

-----------------------------------------------------------------------------
(* Inputs.  A header value is a string of bytes that hyper's HeaderValue   *)
(* admits (tab, 32..126, 128..255); the chain header's value is any        *)
(* concatenation of at most MaxTokens tokens, or one of the examples of    *)
(* the specification.                                                      *)

MaxTokens == 3

Tokens ==
    { <<49, 57, 50, 46, 48, 46, 50, 46, 49>>,   \* "192.0.2.1"
      <<55, 48, 46, 52, 49, 46, 51, 46, 49, 56>>,  \* "70.41.3.18"
      <<58, 58, 49>>,   \* "::1"
      <<58, 56>>,   \* ":8"
      <<91, 58, 58, 49, 93>>,   \* "[::1]"
      <<93>>,   \* "]"
      <<44>>,   \* ","
      <<32>>,   \* " "
      <<120>>,  \* "x"
      <<255>>,  \* a byte that is not UTF-8
      <<194, 160>> }  \* U+00A0 NO-BREAK SPACE

RECURSIVE TokenStrings(_)
TokenStrings(n) ==
    IF n = 0 THEN {<<>>}
    ELSE LET shorter == TokenStrings(n - 1) IN
         shorter \cup {p \o t : p \in shorter, t \in Tokens}

\* "203.0.113.1, 70.41.3.18, 150.172.238.178"
ExampleList ==
    <<50, 48, 51, 46, 48, 46, 49, 49, 51, 46, 49, 44, 32,
      55, 48, 46, 52, 49, 46, 51, 46, 49, 56, 44, 32,
      49, 53, 48, 46, 49, 55, 50, 46, 50, 51, 56, 46, 49, 55, 56>>

\* "192.0.2.1:8080"
ExampleV4Port == <<49, 57, 50, 46, 48, 46, 50, 46, 49, 58, 56, 48, 56, 48>>

\* "[2001:db8::1]:443"
ExampleV6Port ==
    <<91, 50, 48, 48, 49, 58, 100, 98, 56, 58, 58, 49, 93, 58, 52, 52, 51>>

\* "2001:db8::1"
ExampleV6Bare == <<50, 48, 48, 49, 58, 100, 98, 56, 58, 58, 49>>

\* "not-an-ip"
ExampleNotAnIp == <<110, 111, 116, 45, 97, 110, 45, 105, 112>>

\* "198.51.100.23"
ExampleRealIp == <<49, 57, 56, 46, 53, 49, 46, 49, 48, 48, 46, 50, 51>>

\* "150.172.238.178"
ExampleLast == <<49, 53, 48, 46, 49, 55, 50, 46, 50, 51, 56, 46, 49, 55, 56>>

ChainValues == TokenStrings(MaxTokens)

RealIpValues ==
    { <<>>,
      ExampleRealIp,
      <<32>> \o ExampleRealIp \o <<9, 194, 160>>,  \* padded with white space
      ExampleRealIp \o <<58, 56, 48>>,             \* "198.51.100.23:80"
      ExampleV6Bare,
      ExampleNotAnIp,
      <<32>>,
      ExampleRealIp \o <<255>> }                   \* not UTF-8

\* IpAddr::V4 and IpAddr::V6 values
V4(a, b, c, d) == <<4, a, b, c, d>>

V6(a, b, c, d, e, f, g, h) == <<6, a, b, c, d, e, f, g, h>>

\* 203.0.113.9:54321 and [2001:db8::9]:443
SocketAddrs ==
    { [ip |-> V4(203, 0, 113, 9), port |-> 54321],
      [ip |-> V6(8193, 3512, 0, 0, 0, 0, 0, 9), port |-> 443] }

ForwardedForName == "x-forwarded-for"

Absent == {None}

Present(values) == {Some(v) : v \in values}

\* The header map holding the given optional values
HeaderMapOf(chain, rip, xff) ==
    LET names == (IF IsSome(chain) THEN {ChainHeaderName} ELSE {})
                 \cup (IF IsSome(rip) THEN {RealIpHeaderName} ELSE {})
                 \cup (IF IsSome(xff) THEN {ForwardedForName} ELSE {})
    IN [n \in names |->
            IF n = ChainHeaderName THEN Unwrap(chain)
            ELSE IF n = RealIpHeaderName THEN Unwrap(rip)
            ELSE Unwrap(xff)]

ChainExamples ==
    {ExampleList, ExampleV4Port, ExampleV6Port, ExampleV6Bare, ExampleNotAnIp}

\* The requests: every chain value with every real-IP value on an IPv4
\* socket, and the examples also with an X-Forwarded-For header and on an
\* IPv6 socket
Requests ==
    { [addr |-> [ip |-> V4(203, 0, 113, 9), port |-> 54321],
       headers |-> HeaderMapOf(chain, rip, None)] :
        chain \in Absent \cup Present(ChainValues),
        rip \in Absent \cup Present(RealIpValues) }
    \cup
    { [addr |-> sock, headers |-> HeaderMapOf(chain, rip, xff)] :
        sock \in SocketAddrs,
        chain \in Absent \cup Present(ChainExamples),
        rip \in Absent \cup Present(RealIpValues),
        xff \in Absent \cup Present({ExampleLast}) }

NoResult == [panic |-> FALSE, ip |-> <<>>, source |-> "none"]

-----------------------------------------------------------------------------
(* The state machine: a request arrives with its socket address and        *)
(* headers, and real_ip is called on it once.                              *)

Init ==
    /\ \E request \in Requests :
           /\ addr = request.addr
           /\ headers = request.headers
    /\ pc = "start"
    /\ result = NoResult

RealIp ==
    /\ pc = "start"
    /\ result' = real_ip(addr, headers)
    /\ pc' = "done"
    /\ UNCHANGED <<addr, headers>>

Next == RealIp

Spec == Init /\ [][Next]_vars

-----------------------------------------------------------------------------
(* Vocabulary of the properties, stated on the inputs of the call.         *)

Done == pc = "done"

IsIpAddr(ip) ==
    \/ Len(ip) = 5 /\ ip[1] = 4 /\ \A k \in 2..5 : ip[k] \in 0..255
    \/ Len(ip) = 9 /\ ip[1] = 6 /\ \A k \in 2..9 : ip[k] \in 0..65535

Contains(s, c) == \E k \in 1..Len(s) : s[k] = c

\* The text of a header: None when the header is absent or is not UTF-8
TextOf(name) ==
    IF name \in DOMAIN headers /\ ValidUtf8From(headers[name], 0)
    THEN Some(headers[name])
    ELSE None

ChainText == TextOf(ChainHeaderName)

RealIpText == TextOf(RealIpHeaderName)

\* The comma-separated pieces of a value: piece k runs between the
\* (k-1)-th and the k-th comma
CommaPositions(v) == {k \in 1..Len(v) : v[k] = Comma}

\* The piece after the last comma (the whole value when there is none)
LastPiece(v) ==
    LET after == {k \in 0..Len(v) :
                    /\ k = 0 \/ v[k] = Comma
                    /\ \A j \in (k + 1)..Len(v) : v[j] # Comma}
    IN SubSeq(v, (CHOOSE k \in after : TRUE) + 1, Len(v))

\* The piece before the first comma
FirstPiece(v) ==
    IF CommaPositions(v) = {} THEN v
    ELSE SubSeq(v, 1, (CHOOSE k \in CommaPositions(v) :
                          \A j \in CommaPositions(v) : k <= j) - 1)

\* The last segment of the chain header, trimmed (<<>> without the header)
LastSegment == IF IsSome(ChainText) THEN trim(LastPiece(Unwrap(ChainText)))
               ELSE <<>>

\* Candidate A: the parse of the port-stripped last segment
ChainCandidate ==
    IF IsSome(ChainText) THEN parse_ip_address(LastSegment).val ELSE None

\* Candidate B: the parse of the trimmed real-IP header
RealIpCandidate ==
    IF IsSome(RealIpText) THEN parse_IpAddr(trim(Unwrap(RealIpText)))
    ELSE None

-----------------------------------------------------------------------------
(* Properties                                                              *)

\* C1 (totality): every call of real_ip returns one pair of an IP address
\* and a Source; no header content makes it panic, the slicing done while
\* stripping a port suffix included.
C1_Totality ==
    Done => /\ ~result.panic
            /\ IsIpAddr(result.ip)
            /\ result.source \in Source

\* A call returned although the last segment held "]:" and was sliced
C1_Witness ==
    /\ Done
    /\ IsSome(ChainText)
    /\ IsSome(rfind_pair(LastSegment, CloseBracket, Colon))
    /\ Contains(Unwrap(ChainText), Comma)
    /\ ~result.panic

\* C2 (fallback monotonicity): when the chain header is absent or yields no
\* parsable address, the result is that of the real-IP header alone (its
\* trimmed value parsed, tagged XRealIpHeader), and when that fails as well
\* the result is exactly (socket address's IP, SocketAddr).
C2_FallbackMonotonicity ==
    (Done /\ ~IsSome(ChainCandidate)) =>
        result = IF IsSome(RealIpCandidate)
                 THEN Resolved(Unwrap(RealIpCandidate), "XRealIpHeader")
                 ELSE Resolved(addr.ip, "SocketAddr")

\* The chain header is there, gives no address, and the padded real-IP
\* header decides
C2_Witness ==
    /\ Done
    /\ IsSome(ChainText)
    /\ ~IsSome(ChainCandidate)
    /\ IsSome(RealIpText)
    /\ trim(Unwrap(RealIpText)) # Unwrap(RealIpText)
    /\ result = Resolved(V4(198, 51, 100, 23), "XRealIpHeader")

\* C3 (source-tag accuracy): the returned Source names the evidence that
\* produced the returned address, and ForwardedHeader is never returned.
C3_SourceTagAccuracy ==
    Done =>
        /\ result.source = "XForwardedForHeader"
              => ChainCandidate = Some(result.ip)
        /\ result.source = "XRealIpHeader"
              => /\ ~IsSome(ChainCandidate)
                 /\ RealIpCandidate = Some(result.ip)
        /\ result.source = "SocketAddr"
              => /\ ~IsSome(ChainCandidate)
                 /\ ~IsSome(RealIpCandidate)
                 /\ result.ip = addr.ip
        /\ result.source # "ForwardedHeader"

\* Both headers hold an address and the chain header's one is returned
C3_Witness ==
    /\ Done
    /\ IsSome(ChainCandidate)
    /\ IsSome(RealIpCandidate)
    /\ ChainCandidate # RealIpCandidate
    /\ result.source = "XForwardedForHeader"

\* C4 (last-entry selection): when the last segment of the chain header,
\* trimmed, is a valid IP address, real_ip returns that address with source
\* XForwardedForHeader, whatever the rest of the request holds.
C4_LastEntrySelection ==
    (Done /\ IsSome(ChainText) /\ IsSome(parse_IpAddr(LastSegment))) =>
        result = Resolved(Unwrap(parse_IpAddr(LastSegment)),
                          "XForwardedForHeader")

\* The segment is "[" address "]:" port: the address between the brackets
\* is an IPv6 address and the port is a non-empty run of decimal digits
IsPort(s) == Len(s) > 0 /\ \A k \in 1..Len(s) : s[k] \in 48..57

BracketSplits(seg) ==
    {k \in 2..(Len(seg) - 1) :
        /\ seg[1] = 91
        /\ seg[k] = CloseBracket
        /\ seg[k + 1] = Colon
        /\ IsPort(SubSeq(seg, k + 2, Len(seg)))
        /\ IsSome(parse_IpAddr(SubSeq(seg, 2, k - 1)))
        /\ Unwrap(parse_IpAddr(SubSeq(seg, 2, k - 1)))[1] = 6}

\* C5 (port stripping, IPv6): a last segment that is a bracketed IPv6
\* literal followed by ':port' resolves to the address inside the brackets,
\* with source XForwardedForHeader.
C5_PortStrippingV6 ==
    (Done /\ IsSome(ChainText)) =>
        \A k \in BracketSplits(LastSegment) :
            result = Resolved(
                Unwrap(parse_IpAddr(SubSeq(LastSegment, 2, k - 1))),
                "XForwardedForHeader")

\* C6 (bare IPv6): a last segment that is an IPv6 address without brackets
\* and without a port is parsed as it stands, and real_ip returns that
\* address with source XForwardedForHeader.
C6_BareV6 ==
    (/\ Done
     /\ IsSome(ChainText)
     /\ IsSome(parse_IpAddr(LastSegment))
     /\ Unwrap(parse_IpAddr(LastSegment))[1] = 6) =>
        result = Resolved(Unwrap(parse_IpAddr(LastSegment)),
                          "XForwardedForHeader")

\* The segment is address ":" port with an IPv4 address and a decimal port
V4PortSplits(seg) ==
    {k \in 1..Len(seg) :
        /\ seg[k] = Colon
        /\ IsPort(SubSeq(seg, k + 1, Len(seg)))
        /\ IsSome(parse_IpAddr(SubSeq(seg, 1, k - 1)))
        /\ Unwrap(parse_IpAddr(SubSeq(seg, 1, k - 1)))[1] = 4}

\* C7 (port stripping, IPv4): a last segment of the form
\* <IPv4 address>:<port> resolves to the IPv4 address with source
\* XForwardedForHeader, and a last segment without ':' is parsed unchanged.
C7_PortStrippingV4 ==
    (Done /\ IsSome(ChainText)) =>
        /\ \A k \in V4PortSplits(LastSegment) :
               result = Resolved(
                   Unwrap(parse_IpAddr(SubSeq(LastSegment, 1, k - 1))),
                   "XForwardedForHeader")
        /\ ~Contains(LastSegment, Colon) =>
               IF IsSome(parse_IpAddr(LastSegment))
               THEN result = Resolved(Unwrap(parse_IpAddr(LastSegment)),
                                      "XForwardedForHeader")
               ELSE result.source # "XForwardedForHeader"

\* "192.0.2.1:8080" resolved to 192.0.2.1
C7_Witness ==
    /\ Done
    /\ ChainText = Some(ExampleV4Port)
    /\ V4PortSplits(LastSegment) # {}
    /\ result = Resolved(V4(192, 0, 2, 1), "XForwardedForHeader")

\* C8 (malformed entry, no retry): when the last segment of the chain header
\* does not parse after port stripping, no earlier segment is tried: the
\* source is never XForwardedForHeader and a parsable real-IP header decides.
C8_NoRetry ==
    (/\ Done
     /\ IsSome(ChainText)
     /\ ~IsSome(parse_ip_address(LastSegment).val)) =>
        /\ result.source # "XForwardedForHeader"
        /\ IsSome(RealIpCandidate) =>
               result = Resolved(Unwrap(RealIpCandidate), "XRealIpHeader")
        /\ (ChainText = Some(ExampleNotAnIp)
              /\ RealIpText = Some(ExampleRealIp)) =>
               result = Resolved(V4(198, 51, 100, 23), "XRealIpHeader")

\* The first segment of the list is a valid address, the last one is not,
\* and the real-IP header was used
C8_Witness ==
    /\ Done
    /\ IsSome(ChainText)
    /\ CommaPositions(Unwrap(ChainText)) # {}
    /\ IsSome(parse_IpAddr(trim(FirstPiece(Unwrap(ChainText)))))
    /\ ~IsSome(parse_ip_address(LastSegment).val)
    /\ result.source = "XRealIpHeader"

Without(h, name) == [n \in DOMAIN h \ {name} |-> h[n]]

NotUtf8(name) == name \in DOMAIN headers /\ ~ValidUtf8From(headers[name], 0)

\* C9 (non-UTF8 resilience): a chain or real-IP header whose value is not
\* valid UTF-8 is treated as if it were absent: the result is the one for
\* the header map without that header, and there is no panic.
C9_NonUtf8AsAbsent ==
    Done =>
        \A name \in {ChainHeaderName, RealIpHeaderName} :
            NotUtf8(name) =>
                /\ ~result.panic
                /\ result = real_ip(addr, Without(headers, name))

\* The chain header is not UTF-8 although its last piece reads as an
\* address, and the address was not taken from it
C9_Witness ==
    /\ Done
    /\ NotUtf8(ChainHeaderName)
    /\ IsSome(parse_IpAddr(trim(LastPiece(headers[ChainHeaderName]))))
    /\ result.source # "XForwardedForHeader"

\* C10 (header name): with X-Forwarded-For as the only relevant header,
\* holding one valid IP address, real_ip returns that address with source
\* XForwardedForHeader, displayed as "'X-Forwarded-For' header".
C10_ForwardedForName ==
    (/\ Done
     /\ DOMAIN headers = {ForwardedForName}
     /\ IsSome(parse_IpAddr(headers[ForwardedForName]))) =>
        /\ result = Resolved(Unwrap(parse_IpAddr(headers[ForwardedForName])),
                             "XForwardedForHeader")
        /\ SourceDisplay(result.source) = "'X-Forwarded-For' header"

====
